---- MODULE Spec2Model ----
(***************************************************************************)
(* check_gmp: the instance manager of the GMP Nagios command plugin.       *)
(*                                                                         *)
(* Every invocation of check_gmp is an operating-system process.  The      *)
(* processes share one sqlite file with the tables Instance and Report     *)
(* and coordinate through it and through SIGSTOP / SIGCONT.  Each sqlite   *)
(* statement and each signal is one atomic step of the process issuing it. *)
(***************************************************************************)
EXTENDS Integers, Sequences, FiniteSets, TLC

\* ------------------------------------------------------------------ bounds
\* Number of invocations of check_gmp that are started.
NumProcs == 3
\* Largest value of -I / --max-running-instances that is tried.
MaxLimit == 2
\* Largest reading of the clock (datetime.now()).
MaxTime == 2

\* Number of invocations that run status() at the same time.
NumChecks == 2

Procs == 1..NumProcs
Pids == 1..NumProcs
Times == 0..MaxTime

VARIABLES
    MAX_RUNNING_INSTANCES,     \* the module global, set from -I
    Instance,                  \* table Instance(created_at, pid, pending)
    now,                       \* the last reading of datetime.now()
    procState,                 \* the operating system's view of each process
    pc,                        \* each invocation's position in main()
    pid,                       \* InstanceManager.pid = os.getpid()
    number_instances,          \* local of check_instances / wake_instance
    pending_entries,           \* local: the entries still to be resumed
    pids,                      \* local of clean_orphaned_instances
    Report,                    \* table Report(host, scan_end, params_used, report)
    request,                   \* im.host and the arguments of old_report
    db_entry,                  \* local of old_report
    full_report,               \* local of status(): the lxml object
    store                      \* what exists at self.path: the file, the tables

\* What the instance ledger reads and writes, but for pc.
ledgerVars == <<MAX_RUNNING_INSTANCES, Instance, now, procState, pid,
                number_instances, pending_entries, pids>>

\* The store after a constructor has run alone: the file with both tables.
Created == {"file", "Report", "Instance"}

\* What the report cache reads and writes, but for pc.
cacheVars == <<Report, request, db_entry, full_report, store>>

vars == <<ledgerVars, cacheVars, pc>>

\* ------------------------------------------------------- operating system
\* A process that holds its pid: running, or frozen by SIGSTOP.
Live(p) == procState[p] \in {"running", "stopped"}

\* A process that has ended: sys.exit, the end of main, a traceback or a
\* SIGKILL.  Its pid is free again.
Dead(p) == procState[p] = "dead"

\* os.kill(pid, 0) succeeds iff some process holds the pid.
check_pid(n) == \E q \in Procs : Live(q) /\ pid[q] = n

\* A signal that is never delivered.
lose_signal(n) == procState

\* os.kill(pid, SIGCONT): a stopped process continues, a running one is
\* not affected.
start_process(n) ==
    [q \in Procs |-> IF Live(q) /\ pid[q] = n /\ procState[q] = "stopped"
                     THEN "running" ELSE procState[q]]

\* A stop signal that goes to every running process.
stop_processes(n) ==
    [q \in Procs |-> IF procState[q] = "running" THEN "stopped"
                     ELSE procState[q]]

\* os.kill(pid, SIGSTOP): the process is frozen.
stop_process(n) ==
    [q \in Procs |-> IF Live(q) /\ pid[q] = n THEN "stopped" ELSE procState[q]]

\* ----------------------------------------------------------- table Instance
\* The table is the sequence of its rows in the order of their insertion
\* (the order of a table scan); a row is [created_at, pid, pending].

\* The places of the rows with the given pending value.
RowsWith(pending) == {i \in DOMAIN Instance : Instance[i].pending = pending}

\* SELECT count(*) FROM Instance WHERE pending=?
has_entries(pending) == Cardinality(RowsWith(pending))

\* An INSERT that writes every row as a queued one.
add_queued_instance(p, pending, t) ==
    Append(Instance, [created_at |-> t, pid |-> pid[p], pending |-> 1])

\* INSERT INTO Instance VALUES (current_time, self.pid, pending)
add_instance(p, pending, t) ==
    Append(Instance, [created_at |-> t, pid |-> pid[p], pending |-> pending])

\* An UPDATE without the WHERE clause that writes the opposite value.
toggle_pending_status(date, status) ==
    [i \in DOMAIN Instance |->
        [Instance[i] EXCEPT !.pending = 1 - Instance[i].pending]]

\* An UPDATE that is not committed.
keep_pending_status(date, status) == Instance

\* UPDATE Instance SET pending=? WHERE created_at=?
update_pending_status(date, status) ==
    [i \in DOMAIN Instance |->
        IF Instance[i].created_at = date
        THEN [Instance[i] EXCEPT !.pending = status] ELSE Instance[i]]

\* A DELETE that spares the rows of the queue.
KeepsRowOrPending(r, n) == r.pid # n \/ r.pending = 1

\* The rows that DELETE FROM Instance WHERE pid=? keeps.
KeepsRow(r, n) == r.pid # n

\* DELETE FROM Instance WHERE pid=?
delete_instance(n) == SelectSeq(Instance, LAMBDA r : KeepsRow(r, n))

\* The SELECT with ORDER BY created_at DESC: the newest entries first.
get_newest_pending_entries(number) ==
    LET P == RowsWith(1)
        k == IF Cardinality(P) < number THEN Cardinality(P) ELSE number
    IN  {s \in [1..k -> P] :
            /\ \A i, j \in 1..k : i < j =>
                  /\ s[i] # s[j]
                  /\ Instance[s[i]].created_at >= Instance[s[j]].created_at
            /\ \A r \in P : (\A i \in 1..k : s[i] # r) =>
                  \A i \in 1..k :
                      Instance[s[i]].created_at >= Instance[r].created_at}

\* SELECT * FROM Instance WHERE pending=1 ORDER BY created_at LIMIT number:
\* the possible results, as the places of the rows.  sqlite leaves the order
\* of rows with the same created_at open, so every order of them is possible.
get_oldest_pending_entries(number) ==
    LET P == RowsWith(1)
        k == IF Cardinality(P) < number THEN Cardinality(P) ELSE number
    IN  {s \in [1..k -> P] :
            /\ \A i, j \in 1..k : i < j =>
                  /\ s[i] # s[j]
                  /\ Instance[s[i]].created_at <= Instance[s[j]].created_at
            /\ \A r \in P : (\A i \in 1..k : s[i] # r) =>
                  \A i \in 1..k :
                      Instance[s[i]].created_at <= Instance[r].created_at}

\* ------------------------------------------------------------- table Report
\* The table is the sequence of its rows in the order of their insertion; a
\* row is [host, scan_end, params_used, report].

\* A scan end as the scan manager writes it, an ISO 8601 text: the day and
\* the hour of the local time and the offset of the time zone in hours.
\* "2024-01-01T00:00:00Z"
ScanEndUtc == [day |-> 1, hour |-> 0, tz |-> 0]
\* "2024-01-01T01:00:00+01:00", the same moment
ScanEndCet == [day |-> 1, hour |-> 1, tz |-> 1]
\* "2024-01-02T00:00:00Z", a day later
ScanEndLater == [day |-> 2, hour |-> 0, tz |-> 0]
\* '', what status() passes for a task whose last report has no scan_end
ScanEndEmpty == [day |-> 0, hour |-> 0, tz |-> 0]

ScanEnds == {ScanEndUtc, ScanEndCet, ScanEndLater, ScanEndEmpty}

Hosts == {"10.0.0.5", "10.0.0.6"}

\* The arguments that params_used is built from.
ArgSets == {[task |-> "task", autofp |-> a, overrides |-> 0,
             apply_overrides |-> 0] : a \in {0, 1}}

\* 'task=%s autofp=%i overrides=%i apply_overrides=%i' % (...)
params_used(args) ==
    <<args.task, args.autofp, args.overrides, args.apply_overrides>>

\* What an invocation asks the cache: im.host, last_scan_end, params_used.
Requests == [host : Hosts, scan_end : ScanEnds,
             params_used : {params_used(a) : a \in ArgSets}]

NoRequest == [host |-> "", scan_end |-> ScanEndEmpty, params_used |-> <<>>]

\* ISO8601_REGEX matches a text that begins with the four digits of a year.
Parses(datestring) == datestring.day > 0

\* parse_date(datestring): the moment in hours, the offset of the time zone
\* taken off the local time.
parse_date(datestring) ==
    datestring.day * 24 + datestring.hour - datestring.tz

\* An lxml object: its serialisation, and whether it is the root of its
\* document or lies inside a response.  None is the object with no xml.
None == [xml |-> <<>>, root |-> TRUE]

\* etree.tostring(report)
tostring(report) == report.xml

\* etree.fromstring(data)
fromstring(data) == [xml |-> data, root |-> TRUE]

\* The report that the scan manager has for the request, serialised.
ReportXml(req) == <<req.host, req.scan_end, req.params_used>>

\* conn.get_reports(...): status() goes on with the response (--task) or
\* with the element report/report inside it (--use-asset-management).
get_reports(req) == {[xml |-> ReportXml(req), root |-> b] : b \in BOOLEAN}

\* The place of the first row of the host, the one fetchone() returns after
\* SELECT ... FROM Report WHERE host=?; 0 stands for no row.
FirstRow(host) ==
    IF \E i \in DOMAIN Report : Report[i].host = host
    THEN CHOOSE i \in DOMAIN Report :
            /\ Report[i].host = host
            /\ \A j \in DOMAIN Report : Report[j].host = host => i <= j
    ELSE 0

\* The comparison that takes a report of the same moment for an old one.
EarlierReport(new, old, params, db_params) == new < old /\ params = db_params

\* if new <= old and params_used == db_entry[1]
SameReport(new, old, params, db_params) == new <= old /\ params = db_params

\* SELECT scan_end, params_used FROM Report WHERE host=?, fetchone; <<>>
\* stands for None.
select_report(host) ==
    IF FirstRow(host) = 0 THEN <<>>
    ELSE <<Report[FirstRow(host)].scan_end,
           Report[FirstRow(host)].params_used>>

\* An old_report that parses the scan end before it looks at the row.
old_report_parsing(last_scan_end, params, entry) ==
    IF ~Parses(last_scan_end) THEN "ParseError"
    ELSE IF entry = <<>> THEN "True"
    ELSE IF ~Parses(entry[1]) THEN "ParseError"
    ELSE IF SameReport(parse_date(last_scan_end), parse_date(entry[1]),
                       params, entry[2])
    THEN "False"
    ELSE "delete"

\* What old_report does with the row it has read: "True" (no row), "False"
\* (the same report), "delete" (an old report: it goes on with
\* delete_report and returns True) or "ParseError".
old_report(last_scan_end, params, entry) ==
    IF entry = <<>> THEN "True"
    ELSE IF ~Parses(entry[1]) \/ ~Parses(last_scan_end) THEN "ParseError"
    ELSE IF SameReport(parse_date(last_scan_end), parse_date(entry[1]),
                       params, entry[2])
    THEN "False"
    ELSE "delete"

\* The DELETE without its WHERE clause.
delete_reports(host) == SelectSeq(Report, LAMBDA r : FALSE)

\* DELETE FROM Report WHERE host=?
delete_report(host) == SelectSeq(Report, LAMBDA r : r.host # host)

\* The row of a report that was not serialised.
ReportRowWithoutData(req, report) ==
    [host |-> req.host, scan_end |-> req.scan_end,
     params_used |-> req.params_used, report |-> <<>>]

\* data = etree.tostring(report); the row (self.host, scan_end,
\* params_used, data)
ReportRow(req, report) ==
    [host |-> req.host, scan_end |-> req.scan_end,
     params_used |-> req.params_used, report |-> tostring(report)]

\* INSERT INTO Report VALUES (?, ?, ?, ?)
add_report(req, report) == Append(Report, ReportRow(req, report))

\* SELECT report FROM Report WHERE host=?, fetchone, etree.fromstring
load_local_report(host) ==
    IF FirstRow(host) = 0 THEN None
    ELSE fromstring(Report[FirstRow(host)].report)

\* The text of a scan end up to the hour, as the column scan_end holds it;
\* '' is the empty text.  The rest of the text decides no comparison with
\* a date.
ScanEndText(scan_end) ==
    IF Parses(scan_end) THEN <<scan_end.day, scan_end.hour>> ELSE <<>>

\* sqlite's date("now", "-N day"): the text of the UTC date N days before
\* the clock, which is counted in hours.
date_now(days, clock) == <<(clock - 24 * days) \div 24>>

\* sqlite's <= on two texts: character by character, and a text is less
\* than every longer text that begins with it.
RECURSIVE TextLeq(_, _)
TextLeq(a, b) ==
    IF a = <<>> THEN TRUE
    ELSE IF b = <<>> THEN FALSE
    ELSE IF Head(a) # Head(b) THEN Head(a) < Head(b)
    ELSE TextLeq(Tail(a), Tail(b))

\* DELETE FROM Report WHERE scan_end <= date("now", "-N day")
delete_older_entries(days, clock) ==
    SelectSeq(Report, LAMBDA r :
        ~TextLeq(ScanEndText(r.scan_end), date_now(days, clock)))

\* The value of --days and the readings of the clock, in hours, that are
\* tried: noon of day 2 and midnight of day 3.
Days == {1}
Clocks == {60, 72}

\* ------------------------------------------------------------------- Init
Init ==
    /\ MAX_RUNNING_INSTANCES \in 1..MaxLimit
    /\ Instance = <<>>
    /\ now = 0
    /\ procState = [p \in Procs |-> "unstarted"]
    /\ pc = [p \in Procs |-> "start"]
    /\ pid = [p \in Procs |-> 0]
    /\ number_instances = [p \in Procs |-> 0]
    /\ pending_entries = [p \in Procs |-> <<>>]
    /\ pids = [p \in Procs |-> <<>>]
    /\ Report = <<>>
    /\ request = [p \in Procs |-> NoRequest]
    /\ db_entry = [p \in Procs |-> <<>>]
    /\ full_report = [p \in Procs |-> None]
    /\ store = Created

\* ------------------------------------------------------- process bookkeeping
\* Invocation p is scheduled and stands at position `at`.
At(p, at) == procState[p] = "running" /\ pc[p] = at

\* The locals of invocation p take these values, the others keep theirs.
Locals(p, number, entries, rest) ==
    /\ number_instances' = [number_instances EXCEPT ![p] = number]
    /\ pending_entries' = [pending_entries EXCEPT ![p] = entries]
    /\ pids' = [pids EXCEPT ![p] = rest]

\* Invocation p goes to position `at`.
Goto(p, at) == pc' = [pc EXCEPT ![p] = at]

\* The process of invocation p ends, after os.kill(n, SIGCONT) if n # 0;
\* its pid is free and its locals are gone.
EndAfter(p, n) ==
    /\ procState' = [start_process(n) EXCEPT ![p] = "dead"]
    /\ pid' = [pid EXCEPT ![p] = 0]
    /\ Goto(p, "done")
    /\ Locals(p, 0, <<>>, <<>>)

End(p) == EndAfter(p, 0)

\* ------------------------------------------- clean_orphaned_instances
\* SELECT pid FROM Instance; fetchall()
SelectPids == [i \in DOMAIN Instance |-> Instance[i].pid]

\* Where the sweep goes once the pids `rest` are left to probe.
AfterProbe(rest) == IF rest = <<>> THEN "count_running" ELSE "sweep_probe"

\* The pids that are recorded somewhere: in a row of Instance, or in a list
\* an invocation has fetched and still works through.
Recorded ==
    {Instance[i].pid : i \in DOMAIN Instance}
    \cup UNION {{pids[q][i] : i \in 1..Len(pids[q])} : q \in Procs}
    \cup UNION {{pending_entries[q][i].pid : i \in 1..Len(pending_entries[q])}
                   : q \in Procs}

\* A new check_gmp process runs main() up to the first statement of
\* check_instances, the SELECT of clean_orphaned_instances.  The operating
\* system gives it a pid that no live process holds: pid p stands for a pid
\* never used before, and a pid of an ended process is told apart from a new
\* one only while it is recorded.  Invocations start in the order of their
\* numbers.
Start(p) ==
    /\ procState[p] = "unstarted"
    /\ \A q \in Procs : q < p => procState[q] # "unstarted"
    /\ \E n \in Pids :
          /\ n = p \/ n \in Recorded
          /\ ~check_pid(n)
          /\ pid' = [pid EXCEPT ![p] = n]
    /\ procState' = [procState EXCEPT ![p] = "running"]
    /\ Goto(p, AfterProbe(SelectPids))
    /\ Locals(p, 0, <<>>, SelectPids)
    /\ UNCHANGED <<cacheVars, MAX_RUNNING_INSTANCES, Instance, now>>

\* if not self.check_pid(pid[0]): ...
SweepProbe(p) ==
    /\ At(p, "sweep_probe")
    /\ IF check_pid(Head(pids[p]))
       THEN /\ Goto(p, AfterProbe(Tail(pids[p])))
            /\ Locals(p, 0, <<>>, Tail(pids[p]))
       ELSE /\ Goto(p, "sweep_delete")
            /\ UNCHANGED <<number_instances, pending_entries, pids>>
    /\ UNCHANGED <<cacheVars, MAX_RUNNING_INSTANCES, Instance, now, procState, pid>>

\* ... self.delete_instance(pid[0])
SweepDelete(p) ==
    /\ At(p, "sweep_delete")
    /\ Instance' = delete_instance(Head(pids[p]))
    /\ Goto(p, AfterProbe(Tail(pids[p])))
    /\ Locals(p, 0, <<>>, Tail(pids[p]))
    /\ UNCHANGED <<cacheVars, MAX_RUNNING_INSTANCES, now, procState, pid>>

\* ------------------------------------------------------- check_instances
\* number_instances = self.has_entries(pending=0)
CountRunning(p) ==
    /\ At(p, "count_running")
    /\ Locals(p, has_entries(0), <<>>, <<>>)
    /\ Goto(p, "count_pending")
    /\ UNCHANGED <<cacheVars, MAX_RUNNING_INSTANCES, Instance, now, procState, pid>>

\* A branch that looks at the queue only.
FallByQueue(running, pending) ==
    IF pending = 0 THEN "add_running" ELSE "add_pending"

\* The branch of check_instances taken with the two counts ('Fall 1' to
\* 'Fall 4'): the position of the branch's first statement.
Fall(running, pending) ==
    IF running < MAX_RUNNING_INSTANCES /\ pending = 0 THEN "add_running"
    ELSE IF running < MAX_RUNNING_INSTANCES /\ pending > 0 THEN "drain_select"
    ELSE "add_pending"

\* number_pending_instances = self.has_entries(pending=1), and the branch
CountPending(p) ==
    /\ At(p, "count_pending")
    /\ Goto(p, Fall(number_instances[p], has_entries(1)))
    /\ UNCHANGED <<cacheVars, MAX_RUNNING_INSTANCES, Instance, now, procState, pid,
                   number_instances, pending_entries, pids>>

\* The created_at values that are recorded somewhere.
RecordedTimes ==
    {Instance[i].created_at : i \in DOMAIN Instance}
    \cup UNION {{pending_entries[q][i].created_at
                    : i \in 1..Len(pending_entries[q])} : q \in Procs}

\* The readings datetime.now().isoformat() can give: the clock does not run
\* backwards, and two readings may be equal.  Readings are told apart only
\* by their order, so a later reading is tried where an equal one is
\* recorded.
Clock == {t \in Times : t = now \/ (t = now + 1 /\ now \in RecordedTimes)}

\* Fall 1: self.add_instance(pending=0); check_instances returns.
AddRunning(p) ==
    /\ At(p, "add_running")
    /\ \E t \in Clock :
          /\ Instance' = add_instance(p, 0, t)
          /\ now' = t
    /\ Goto(p, "main")
    /\ Locals(p, 0, <<>>, <<>>)
    /\ UNCHANGED <<cacheVars, MAX_RUNNING_INSTANCES, procState, pid>>

\* Fall 3 and Fall 4: self.add_instance(pending=1)
AddPending(p) ==
    /\ At(p, "add_pending")
    /\ \E t \in Clock :
          /\ Instance' = add_instance(p, 1, t)
          /\ now' = t
    /\ Goto(p, "stop_self")
    /\ Locals(p, 0, <<>>, <<>>)
    /\ UNCHANGED <<cacheVars, MAX_RUNNING_INSTANCES, procState, pid>>

\* Fall 3 and Fall 4: self.stop_process(self.pid).  The process is frozen
\* inside os.kill and returns from check_instances when it is continued.
StopSelf(p) ==
    /\ At(p, "stop_self")
    /\ procState' = stop_process(pid[p])
    /\ Goto(p, "main")
    /\ UNCHANGED <<cacheVars, MAX_RUNNING_INSTANCES, Instance, now, pid,
                   number_instances, pending_entries, pids>>

\* The columns of the fetched rows that the drains read: entry[0], entry[1].
Entries(s) == [i \in 1..Len(s) |->
                  [created_at |-> Instance[s[i]].created_at,
                   pid |-> Instance[s[i]].pid]]

\* Fall 2: pending_entries = self.get_oldest_pending_entries(
\*             MAX_RUNNING_INSTANCES - number_instances)
DrainSelect(p) ==
    /\ At(p, "drain_select")
    /\ \E s \in get_oldest_pending_entries(
                    MAX_RUNNING_INSTANCES - number_instances[p]) :
          /\ Locals(p, 0, Entries(s), <<>>)
          /\ Goto(p, IF s = <<>> THEN "recount_running" ELSE "drain_update")
    /\ UNCHANGED <<cacheVars, MAX_RUNNING_INSTANCES, Instance, now, procState, pid>>

\* Fall 2: self.update_pending_status(created_at, False)
DrainUpdate(p) ==
    /\ At(p, "drain_update")
    /\ Instance' = update_pending_status(Head(pending_entries[p]).created_at, 0)
    /\ Goto(p, "drain_signal")
    /\ UNCHANGED <<cacheVars, MAX_RUNNING_INSTANCES, now, procState, pid,
                   number_instances, pending_entries, pids>>

\* Fall 2: self.start_process(pid).  os.kill raises ProcessLookupError for
\* a pid no process holds; nothing catches it and the invocation ends.
DrainSignal(p) ==
    /\ At(p, "drain_signal")
    /\ IF check_pid(Head(pending_entries[p]).pid)
       THEN /\ procState' = start_process(Head(pending_entries[p]).pid)
            /\ Locals(p, 0, Tail(pending_entries[p]), <<>>)
            /\ Goto(p, IF Tail(pending_entries[p]) = <<>>
                       THEN "recount_running" ELSE "drain_update")
            /\ UNCHANGED pid
       ELSE End(p)
    /\ UNCHANGED <<cacheVars, MAX_RUNNING_INSTANCES, Instance, now>>

\* Fall 2: number_instances = self.has_entries(pending=0)
RecountRunning(p) ==
    /\ At(p, "recount_running")
    /\ Locals(p, has_entries(0), <<>>, <<>>)
    /\ Goto(p, "recount_pending")
    /\ UNCHANGED <<cacheVars, MAX_RUNNING_INSTANCES, Instance, now, procState, pid>>

\* Fall 2: number_pending_instances = self.has_entries(pending=1), and the
\* while condition; when it is false check_instances returns.
RecountPending(p) ==
    /\ At(p, "recount_pending")
    /\ IF number_instances[p] < MAX_RUNNING_INSTANCES /\ has_entries(1) > 0
       THEN /\ Goto(p, "drain_select")
            /\ UNCHANGED <<number_instances, pending_entries, pids>>
       ELSE /\ Goto(p, "main")
            /\ Locals(p, 0, <<>>, <<>>)
    /\ UNCHANGED <<cacheVars, MAX_RUNNING_INSTANCES, Instance, now, procState, pid>>

\* ------------------------------------------------------------------ main
\* end_session(msg, nagios_status): conn.close(), print(msg),
\* im.delete_instance()
EndSession(p) ==
    /\ At(p, "main")
    /\ Instance' = delete_instance(pid[p])
    /\ Goto(p, "wake_count_running")
    /\ UNCHANGED <<cacheVars, MAX_RUNNING_INSTANCES, now, procState, pid,
                   number_instances, pending_entries, pids>>

\* main() reaches its last line, conn.close(), without a call of
\* end_session: neither --ping nor --status, or status() with neither
\* --use-asset-management nor --task.
MainReturns(p) ==
    /\ At(p, "main")
    /\ End(p)
    /\ UNCHANGED <<cacheVars, MAX_RUNNING_INSTANCES, Instance, now>>

\* An exception that nothing catches: conn.get_version() in main,
\* conn.get_reports() or parse_date() in status.
Uncaught(p) ==
    /\ At(p, "main")
    /\ End(p)
    /\ UNCHANGED <<cacheVars, MAX_RUNNING_INSTANCES, Instance, now>>

\* --------------------------------------------------------- wake_instance
\* number_instances = self.has_entries(pending=0)
WakeCountRunning(p) ==
    /\ At(p, "wake_count_running")
    /\ Locals(p, has_entries(0), <<>>, <<>>)
    /\ Goto(p, "wake_count_pending")
    /\ UNCHANGED <<cacheVars, MAX_RUNNING_INSTANCES, Instance, now, procState, pid>>

\* number_pending_instances = self.has_entries(pending=1), and the if; when
\* it is false end_session goes on: im.close_db(), sys.exit(nagios_status).
WakeCountPending(p) ==
    /\ At(p, "wake_count_pending")
    /\ IF number_instances[p] < MAX_RUNNING_INSTANCES /\ has_entries(1) > 0
       THEN /\ Goto(p, "wake_select")
            /\ UNCHANGED <<procState, pid, number_instances, pending_entries,
                           pids>>
       ELSE End(p)
    /\ UNCHANGED <<cacheVars, MAX_RUNNING_INSTANCES, Instance, now>>

\* pending_entries = self.get_oldest_pending_entries(
\*     MAX_RUNNING_INSTANCES - number_instances); with no entry fetched
\* end_session goes on: im.close_db(), sys.exit(nagios_status).
WakeSelect(p) ==
    /\ At(p, "wake_select")
    /\ \E s \in get_oldest_pending_entries(
                    MAX_RUNNING_INSTANCES - number_instances[p]) :
          IF s = <<>>
          THEN End(p)
          ELSE /\ Locals(p, 0, Entries(s), <<>>)
               /\ Goto(p, "wake_update")
               /\ UNCHANGED <<procState, pid>>
    /\ UNCHANGED <<cacheVars, MAX_RUNNING_INSTANCES, Instance, now>>

\* self.update_pending_status(created_at, False)
WakeUpdate(p) ==
    /\ At(p, "wake_update")
    /\ Instance' = update_pending_status(Head(pending_entries[p]).created_at, 0)
    /\ Goto(p, "wake_signal")
    /\ UNCHANGED <<cacheVars, MAX_RUNNING_INSTANCES, now, procState, pid,
                   number_instances, pending_entries, pids>>

\* self.start_process(pid), which raises ProcessLookupError for a pid no
\* process holds; after the last entry end_session goes on: im.close_db(),
\* sys.exit(nagios_status).
WakeSignal(p) ==
    /\ At(p, "wake_signal")
    /\ IF ~check_pid(Head(pending_entries[p]).pid)
       THEN End(p)
       ELSE IF Tail(pending_entries[p]) = <<>>
       THEN EndAfter(p, Head(pending_entries[p]).pid)
       ELSE /\ procState' = start_process(Head(pending_entries[p]).pid)
            /\ Locals(p, 0, Tail(pending_entries[p]), <<>>)
            /\ Goto(p, "wake_update")
            /\ UNCHANGED pid
    /\ UNCHANGED <<cacheVars, MAX_RUNNING_INSTANCES, Instance, now>>

\* ------------------------------------------------------------ environment
\* SIGKILL from outside (a restart of nagios) for an invocation that waits
\* in the queue: the process is gone and nothing of its code runs any more.
\* (A SIGKILL for an invocation at work in main leaves what Uncaught leaves.)
Kill(p) ==
    /\ procState[p] = "stopped"
    /\ End(p)
    /\ UNCHANGED <<cacheVars, MAX_RUNNING_INSTANCES, Instance, now>>

\* ------------------------------------------------------------------- Next
Step(p) ==
    \/ Start(p)
    \/ SweepProbe(p) \/ SweepDelete(p)
    \/ CountRunning(p) \/ CountPending(p)
    \/ AddRunning(p) \/ AddPending(p) \/ StopSelf(p)
    \/ DrainSelect(p) \/ DrainUpdate(p) \/ DrainSignal(p)
    \/ RecountRunning(p) \/ RecountPending(p)
    \/ EndSession(p) \/ MainReturns(p) \/ Uncaught(p)
    \/ WakeCountRunning(p) \/ WakeCountPending(p)
    \/ WakeSelect(p) \/ WakeUpdate(p) \/ WakeSignal(p)

Next == \E p \in Procs : Step(p) \/ Kill(p)

Spec == Init /\ [][Next]_vars

\* ---------------------------------------------------------------- status
\* The Report table an earlier invocation has left: no row, or the row it
\* has added.
EarlierReports ==
    {<<>>} \cup {<<ReportRow(req, fromstring(ReportXml(req)))>> :
                    req \in Requests}

\* NumChecks invocations have been admitted one after the other and stand
\* in status(), before im.old_report(last_scan_end, params_used).
InitCache ==
    /\ MAX_RUNNING_INSTANCES = NumProcs
    /\ Instance = [p \in 1..NumChecks |->
                      [created_at |-> 0, pid |-> p, pending |-> 0]]
    /\ now = 0
    /\ procState = [p \in Procs |->
                       IF p <= NumChecks THEN "running" ELSE "unstarted"]
    /\ pc = [p \in Procs |-> IF p <= NumChecks THEN "old_report" ELSE "start"]
    /\ pid = [p \in Procs |-> IF p <= NumChecks THEN p ELSE 0]
    /\ number_instances = [p \in Procs |-> 0]
    /\ pending_entries = [p \in Procs |-> <<>>]
    /\ pids = [p \in Procs |-> <<>>]
    /\ Report \in EarlierReports
    /\ request = [p \in Procs |-> NoRequest]
    /\ db_entry = [p \in Procs |-> <<>>]
    /\ full_report = [p \in Procs |-> None]
    /\ store = Created

\* old_report: SELECT scan_end, params_used FROM Report WHERE host=?,
\* fetchone, and what follows up to the next statement on the store.  After
\* True status() asks the scan manager for the report.
OldReport(p) ==
    /\ At(p, "old_report")
    /\ \A q \in Procs : q < p => pc[q] # "old_report"
    /\ \E req \in Requests :
          /\ request' = [request EXCEPT ![p] = req]
          /\ LET entry == select_report(req.host)
                 result == old_report(req.scan_end, req.params_used, entry)
             IN  \/ /\ result = "True"
                    /\ \E report \in get_reports(req) :
                          full_report' = [full_report EXCEPT ![p] = report]
                    /\ Goto(p, "add_report")
                    /\ UNCHANGED db_entry
                 \/ /\ result = "False"
                    /\ Goto(p, "load_local_report")
                    /\ UNCHANGED <<db_entry, full_report>>
                 \/ /\ result = "delete"
                    /\ db_entry' = [db_entry EXCEPT ![p] = entry]
                    /\ Goto(p, "delete_report")
                    /\ UNCHANGED full_report
                 \/ /\ result = "ParseError"
                    /\ Goto(p, "ParseError")
                    /\ UNCHANGED <<db_entry, full_report>>
    /\ UNCHANGED <<ledgerVars, Report, store>>

\* old_report: self.delete_report(), return True; status() asks the scan
\* manager for the report.
DeleteReport(p) ==
    /\ At(p, "delete_report")
    /\ Report' = delete_report(request[p].host)
    /\ \E report \in get_reports(request[p]) :
          full_report' = [full_report EXCEPT ![p] = report]
    /\ Goto(p, "add_report")
    /\ UNCHANGED <<ledgerVars, request, db_entry, store>>

\* im.add_report(last_scan_end, params_used, full_report); filter_report
\* gets the report that was fetched, and status() is over: its locals are
\* gone and what is left of main is end_session.
AddReport(p) ==
    /\ At(p, "add_report")
    /\ Report' = add_report(request[p], full_report[p])
    /\ request' = [request EXCEPT ![p] = NoRequest]
    /\ db_entry' = [db_entry EXCEPT ![p] = <<>>]
    /\ full_report' = [full_report EXCEPT ![p] = None]
    /\ Goto(p, "main")
    /\ UNCHANGED <<ledgerVars, store>>

\* full_report = im.load_local_report(); filter_report gets what was
\* loaded.
LoadLocalReport(p) ==
    /\ At(p, "load_local_report")
    /\ full_report' = [full_report EXCEPT ![p] =
                          load_local_report(request[p].host)]
    /\ Goto(p, "filter_report")
    /\ UNCHANGED <<ledgerVars, Report, request, db_entry, store>>

\* An invocation with --clean --days N: main() runs
\* im.delete_older_entries(args.days) and sys.exit(1) before set_host and
\* check_instances.
CleanDays ==
    /\ \E days \in Days, clock \in Clocks :
          Report' = delete_older_entries(days, clock)
    /\ UNCHANGED <<ledgerVars, pc, request, db_entry, full_report, store>>

NextCache ==
    \/ \E p \in Procs :
          \/ OldReport(p) \/ DeleteReport(p) \/ AddReport(p)
          \/ LoadLocalReport(p)
    \/ CleanDays

SpecCache == InitCache /\ [][NextCache]_vars

\* ------------------------------------------------ further specifications
\* The positions inside check_instances.
InCheckInstances(p) ==
    /\ procState[p] = "running"
    /\ pc[p] \in {"sweep_probe", "sweep_delete", "count_running",
                  "count_pending", "add_running", "add_pending", "stop_self",
                  "drain_select", "drain_update", "drain_signal",
                  "recount_running", "recount_pending"}

\* The positions after check_instances has returned.
AfterCheckInstances == {"main", "wake_count_running", "wake_count_pending",
                        "wake_select", "wake_update", "wake_signal"}

\* The positions inside end_session, after im.delete_instance().
InEndSession(p) ==
    /\ procState[p] = "running"
    /\ pc[p] \in AfterCheckInstances \ {"main"}

\* Runs in which nothing happens while an invocation is inside
\* check_instances or inside end_session but the steps of that invocation.
Alone(p) == \A q \in Procs \ {p} : ~InCheckInstances(q) /\ ~InEndSession(q)

NextSerial ==
    \E p \in Procs :
        \/ Alone(p) /\ Start(p)
        \/ Alone(p) /\ SweepProbe(p)
        \/ Alone(p) /\ SweepDelete(p)
        \/ Alone(p) /\ CountRunning(p)
        \/ Alone(p) /\ CountPending(p)
        \/ Alone(p) /\ AddRunning(p)
        \/ Alone(p) /\ AddPending(p)
        \/ Alone(p) /\ StopSelf(p)
        \/ Alone(p) /\ DrainSelect(p)
        \/ Alone(p) /\ DrainUpdate(p)
        \/ Alone(p) /\ DrainSignal(p)
        \/ Alone(p) /\ RecountRunning(p)
        \/ Alone(p) /\ RecountPending(p)
        \/ Alone(p) /\ EndSession(p)
        \/ Alone(p) /\ MainReturns(p)
        \/ Alone(p) /\ Uncaught(p)
        \/ Alone(p) /\ WakeCountRunning(p)
        \/ Alone(p) /\ WakeCountPending(p)
        \/ Alone(p) /\ WakeSelect(p)
        \/ Alone(p) /\ WakeUpdate(p)
        \/ Alone(p) /\ WakeSignal(p)
        \/ Alone(p) /\ Kill(p)

SpecSerial == Init /\ [][NextSerial]_vars

\* Runs in which every invocation that returns from check_instances calls
\* end_session, no process is killed, and every invocation that can take a
\* step does so in the end.
StepFair(p) ==
    \/ Start(p)
    \/ SweepProbe(p) \/ SweepDelete(p)
    \/ CountRunning(p) \/ CountPending(p)
    \/ AddRunning(p) \/ AddPending(p) \/ StopSelf(p)
    \/ DrainSelect(p) \/ DrainUpdate(p) \/ DrainSignal(p)
    \/ RecountRunning(p) \/ RecountPending(p)
    \/ EndSession(p)
    \/ WakeCountRunning(p) \/ WakeCountPending(p)
    \/ WakeSelect(p) \/ WakeUpdate(p) \/ WakeSignal(p)

NextFair == \E p \in Procs : StepFair(p)

SpecFair == Init /\ [][NextFair]_vars /\ \A p \in Procs : WF_vars(StepFair(p))

\* ----------------------------------------------------------------- claims
\* The invocations that have returned from check_instances and execute.
Executing == {p \in Procs : At(p, "main")}

\* C1: in every reachable state at most MAX_RUNNING_INSTANCES rows of
\* Instance have pending = 0, for every interleaving of the statements of
\* the invocations.
C1_AtMostLimitRunningRows == has_entries(0) <= MAX_RUNNING_INSTANCES

\* C2: in every reachable state at most MAX_RUNNING_INSTANCES invocations
\* have returned from check_instances and execute, also in runs without
\* interleaving inside check_instances and end_session (SpecSerial).
C2_AtMostLimitExecuting == Cardinality(Executing) <= MAX_RUNNING_INSTANCES

C4_NoStarvation ==
    \A p \in Procs : (procState[p] = "stopped") ~> (procState[p] = "running")

\* C5: guaranteed cleanup.  When the process of an invocation that has
\* returned from check_instances ends by itself (the end of main,
\* end_session, an exception), no row with its pid remains.
C5_CleanupOnEveryExit ==
    [][\A p \in Procs :
          (/\ procState[p] = "running"
           /\ pc[p] \in AfterCheckInstances
           /\ procState'[p] = "dead")
          => \A i \in DOMAIN Instance' : Instance'[i].pid # pid[p]]_vars

\* C6: orphan reclamation.  The sweep is over before check_instances
\* counts, and the DELETE for a pid the probe found dead leaves no row with
\* that pid, whatever the row's pending value.
C6_OrphanSweep ==
    /\ [][\A p \in Procs :
            (At(p, "sweep_delete") /\ pc'[p] # "sweep_delete")
            => \A i \in DOMAIN Instance' : Instance'[i].pid # Head(pids[p])]_vars
    /\ [](\A p \in Procs :
            pc[p] \in {"count_running", "count_pending"} => pids[p] = <<>>)

\* C6 witness: the sweep has probed the pid of a killed invocation of the
\* queue (pending = 1) while a row of an ended running one (pending = 0) is
\* in the table too.
C6_Witness ==
    \E p \in Procs : \E i, j \in DOMAIN Instance :
        /\ At(p, "sweep_delete")
        /\ Instance[i].pid = Head(pids[p])
        /\ Instance[i].pending = 1
        /\ Instance[j].pending = 0
        /\ ~check_pid(Instance[j].pid)

\* The rows of the Report table that are not of the host.
OtherHosts(table, host) == SelectSeq(table, LAMBDA r : r.host # host)

\* Invocation p takes the step that begins at `from`.
Leaves(p, from) == pc[p] = from /\ pc'[p] # from

C9_RoundTrip ==
    [][\A p \in Procs :
          /\ Leaves(p, "old_report") =>
                (select_report(request'[p].host) = <<>>
                    => pc'[p] = "add_report" /\ Report' = Report)
          /\ Leaves(p, "add_report") =>
                \A req \in {request[p]} :
                    (select_report(req.host) = <<>> /\ Parses(req.scan_end))
                    => /\ old_report(req.scan_end, req.params_used,
                                     select_report(req.host)') = "False"
                       /\ load_local_report(req.host)' # None
                       /\ tostring(load_local_report(req.host)')
                              = tostring(full_report[p])]_vars

\* An invocation has added the report of a host, and a later one with a
\* request for that report has got False from old_report and has loaded it.
C9_Witness ==
    \E p, q \in Procs :
        /\ pc[p] = "main" /\ pc[q] = "filter_report"
        /\ request[q].scan_end = ScanEndUtc
        /\ Report = <<ReportRow(request[q], fromstring(ReportXml(request[q])))>>
        /\ full_report[q] = fromstring(ReportXml(request[q]))

\* C10: in every reachable state the Report table holds at most one row for
\* a host.
C10_OneRowPerHost ==
    \A h \in Hosts :
        Cardinality({i \in DOMAIN Report : Report[i].host = h}) <= 1

\* C11: in every reachable state the Instance table holds at most one row
\* for a process id, also when the pid of an ended invocation whose row was
\* never deleted is given to a new invocation that registers.
C11_OneRowPerPid ==
    \A i, j \in DOMAIN Instance : Instance[i].pid = Instance[j].pid => i = j

\* The pid and the pending value of every row of the table.
Rows(table) == {<<table[i].pid, table[i].pending>> : i \in DOMAIN table}

\* Scenario A before the termination: a and b execute with pending = 0
\* rows, c is suspended with a pending = 1 row, and there is no other row.
ScenarioBefore(a, b, c) ==
    /\ At(a, "main") /\ At(b, "main")
    /\ procState[c] = "stopped" /\ pc[c] = "main"
    /\ Len(Instance) = 3
    /\ Rows(Instance) = {<<pid[a], 0>>, <<pid[b], 0>>, <<pid[c], 1>>}

\* Scenario A during the termination sequence of a, after a's row was
\* deleted: c is still suspended, and its row is pending unless a has
\* flipped it and is about to signal c.
ScenarioDuring(a, b, c) ==
    /\ InEndSession(a) /\ At(b, "main")
    /\ procState[c] = "stopped" /\ pc[c] = "main"
    /\ Len(Instance) = 2
    /\ \/ Rows(Instance) = {<<pid[b], 0>>, <<pid[c], 1>>}
       \/ /\ pc[a] = "wake_signal"
          /\ Rows(Instance) = {<<pid[b], 0>>, <<pid[c], 0>>}
          /\ Len(pending_entries[a]) = 1
          /\ Head(pending_entries[a]).pid = pid[c]

\* C12: scenario A.  With limit 2 and one invocation at a time inside
\* check_instances or end_session (SpecSerial): an invocation that registers
\* with fewer than 2 rows, none of them pending, inserts a pending = 0 row
\* and executes; one that registers with 2 pending = 0 rows and no pending
\* one inserts a pending = 1 row and stops itself; when a of a, b, c (a and
\* b executing, c suspended) runs end_session, its row is deleted, and when
\* it has ended c's row is flipped, c executes again, and the table holds
\* exactly 2 rows with pending = 0 and none with pending = 1.
C12_ScenarioA ==
    [][MAX_RUNNING_INSTANCES = 2 =>
        \A a \in Procs :
            /\ Leaves(a, "count_pending") =>
                  /\ (Len(Instance) < 2 /\ has_entries(1) = 0)
                        => pc'[a] = "add_running"
                  /\ (has_entries(0) = 2 /\ has_entries(1) = 0)
                        => pc'[a] = "add_pending"
            /\ Leaves(a, "add_running") =>
                  /\ Len(Instance') = Len(Instance) + 1
                  /\ Rows(Instance') = Rows(Instance) \cup {<<pid[a], 0>>}
                  /\ pc'[a] = "main" /\ procState'[a] = "running"
            /\ Leaves(a, "add_pending") =>
                  /\ Len(Instance') = Len(Instance) + 1
                  /\ Rows(Instance') = Rows(Instance) \cup {<<pid[a], 1>>}
                  /\ pc'[a] = "stop_self"
            /\ Leaves(a, "stop_self") =>
                  procState'[a] = "stopped" /\ Instance' = Instance
            /\ \A b, c \in Procs \ {a} :
                  /\ (ScenarioBefore(a, b, c) /\ pc'[a] = "wake_count_running")
                        => /\ Len(Instance') = 2
                           /\ Rows(Instance') = {<<pid[b], 0>>, <<pid[c], 1>>}
                  /\ (ScenarioDuring(a, b, c) /\ pc'[a] = "done")
                        => /\ procState'[a] = "dead"
                           /\ procState'[b] = "running"
                           /\ procState'[c] = "running" /\ pc'[c] = "main"
                           /\ Len(Instance') = 2
                           /\ Rows(Instance') = {<<pid[b], 0>>, <<pid[c], 0>>}]_vars

\* Scenario A before its last step: a's row is deleted, c's row is flipped,
\* and a is about to send the continue signal to c, which is still suspended.
C12_Witness ==
    /\ MAX_RUNNING_INSTANCES = 2
    /\ \E a \in Procs : \E b, c \in Procs \ {a} :
          /\ ScenarioDuring(a, b, c)
          /\ pc[a] = "wake_signal"
          /\ b # c

\* Invocation p takes the last step of end_session and exits; a traceback
\* of start_process is not such a step.
EndsSession(p) ==
    /\ InEndSession(p) /\ pc'[p] = "done"
    /\ pc[p] = "wake_signal" => check_pid(Head(pending_entries[p]).pid)

\* The if of wake_instance: number_instances < MAX_RUNNING_INSTANCES and
\* number_pending_instances > 0.
WakesSome == has_entries(0) < MAX_RUNNING_INSTANCES /\ has_entries(1) > 0

\* C13: idempotent cleanup.  When an invocation has run end_session with no
\* step of another invocation in between (SpecSerial), a second
\* im.delete_instance() deletes no row and a second im.wake_instance() finds
\* its condition false, so it selects and flips no row and sends no signal:
\* the second run raises no error and leaves the Instance table as it is.
C13_IdempotentCleanup ==
    [][\A p \in Procs : \A n \in {pid[p]} :
          EndsSession(p) => /\ delete_instance(n)' = Instance'
                            /\ ~WakesSome']_vars

\* An invocation is about to end a termination sequence in which it has
\* woken the one invocation there was room for; another one stays queued.
C13_Witness ==
    \E p \in Procs :
        /\ At(p, "wake_signal")
        /\ Len(pending_entries[p]) = 1
        /\ check_pid(Head(pending_entries[p]).pid)
        /\ has_entries(1) > 0
        /\ has_entries(0) = MAX_RUNNING_INSTANCES

\* C14: bulk eviction.  delete_older_entries(days) removes every Report row
\* whose scan end is a moment earlier than the clock minus `days` days,
\* keeps every row whose scan end is a later moment, and leaves the
\* Instance table as it is.
C14_BulkEviction ==
    /\ [](\A days \in Days, clock \in Clocks : \A i \in DOMAIN Report :
            Parses(Report[i].scan_end) =>
               LET kept == \E j \in DOMAIN delete_older_entries(days, clock) :
                              delete_older_entries(days, clock)[j] = Report[i]
                   moment == parse_date(Report[i].scan_end)
               IN  /\ moment < clock - 24 * days => ~kept
                   /\ moment > clock - 24 * days => kept)
    /\ [][(Report' # Report /\ pc' = pc) => Instance' = Instance]_vars

\* C15: admission case 2.  An invocation that has returned from
\* check_instances and executes, also one that read active < limit and
\* queued > 0 and drained the queue, has a row with its pid and
\* pending = 0 in the Instance table.
C15_ExecutingHasRow ==
    \A p \in Executing : <<pid[p], 0>> \in Rows(Instance)

\* Some invocation sends the continue signal to pid n in this step.
Continues(n) ==
    \E q \in Procs :
        /\ procState[q] = "running"
        /\ pc[q] \in {"drain_signal", "wake_signal"} /\ pc'[q] # pc[q]
        /\ Head(pending_entries[q]).pid = n

\* C16: admission case 3.  An invocation that has read active >= limit in
\* check_instances goes on to insert exactly one row, with its pid and
\* pending = 1, then stops its own process; while it is stopped it takes no
\* step, and it runs again only in a step in which an invocation sends the
\* continue signal to its pid.
C16_AdmissionCase3 ==
    [][\A p \in Procs :
          /\ (Leaves(p, "count_pending")
                /\ number_instances[p] >= MAX_RUNNING_INSTANCES)
                => pc'[p] = "add_pending"
          /\ Leaves(p, "add_pending") =>
                /\ Len(Instance') = Len(Instance) + 1
                /\ SubSeq(Instance', 1, Len(Instance)) = Instance
                /\ Instance'[Len(Instance')].pid = pid[p]
                /\ Instance'[Len(Instance')].pending = 1
                /\ pc'[p] = "stop_self" /\ procState' = procState
          /\ Leaves(p, "stop_self") =>
                /\ procState'[p] = "stopped" /\ pc'[p] = "main"
                /\ Instance' = Instance
          /\ procState[p] = "stopped" =>
                /\ pc'[p] = pc[p] \/ procState'[p] = "dead"
                /\ procState'[p] = "running" => Continues(pid[p])]_vars

\* Two invocations are suspended with pending = 1 rows: the second has read
\* active >= limit with a queue that was not empty.
C16_Witness ==
    \E p, q \in Procs :
        /\ p # q
        /\ procState[p] = "stopped" /\ procState[q] = "stopped"
        /\ <<pid[p], 1>> \in Rows(Instance)
        /\ <<pid[q], 1>> \in Rows(Instance)
        /\ has_entries(0) >= MAX_RUNNING_INSTANCES

\* C17: admission case 1.  An invocation that reads active < limit and an
\* empty queue goes on to insert exactly one row, with its pid and
\* pending = 0; that step sends no signal (no process changes its state),
\* leaves every other row as it was, and takes the invocation, still
\* running, out of check_instances.
C17_AdmissionCase1 ==
    [][\A p \in Procs :
          /\ (Leaves(p, "count_pending")
                /\ number_instances[p] < MAX_RUNNING_INSTANCES
                /\ has_entries(1) = 0)
                => /\ pc'[p] = "add_running"
                   /\ Instance' = Instance /\ procState' = procState
          /\ Leaves(p, "add_running") =>
                /\ Len(Instance') = Len(Instance) + 1
                /\ SubSeq(Instance', 1, Len(Instance)) = Instance
                /\ Instance'[Len(Instance')].pid = pid[p]
                /\ Instance'[Len(Instance')].pending = 0
                /\ procState' = procState
                /\ pc'[p] = "main" /\ procState'[p] = "running"]_vars

\* An invocation admitted by case 1 executes next to the row of another
\* invocation, which is as it was.
C17_Witness ==
    \E p, q \in Procs :
        /\ p # q /\ At(p, "main") /\ At(q, "main")
        /\ Len(Instance) = 2
        /\ Instance[1].pid = pid[q] /\ Instance[1].pending = 0
        /\ Instance[2].pid = pid[p] /\ Instance[2].pending = 0

\* min(a, b)
Min(a, b) == IF a < b THEN a ELSE b

\* The rows whose pending value the step changes.
Flipped == {i \in DOMAIN Instance :
               i \in DOMAIN Instance' /\ Instance'[i].pending # Instance[i].pending}

\* C18: termination wake without interleaving.  end_session deletes the
\* invocation's own row before wake_instance reads the counts; the drain
\* then fetches min(queued, limit - active) rows, each entry of the batch
\* flips exactly its own row to pending = 0 and no other row, its pid is
\* sent the continue signal, and the drain goes on to the next entry until
\* the batch is done.
C18_TerminationWake ==
    [][\A p \in Procs :
          /\ Leaves(p, "wake_count_running") =>
                /\ \A i \in DOMAIN Instance : Instance[i].pid # pid[p]
                /\ number_instances'[p] = has_entries(0)
          /\ (Leaves(p, "wake_select") /\ has_entries(0) = number_instances[p])
                => Len(pending_entries'[p])
                     = Min(has_entries(1),
                           MAX_RUNNING_INSTANCES - number_instances[p])
          /\ Leaves(p, "wake_update") =>
                /\ Len(Instance') = Len(Instance)
                /\ \A i \in Flipped :
                      /\ Instance[i].pid = Head(pending_entries[p]).pid
                      /\ Instance'[i].pending = 0
                /\ Cardinality(Flipped) = 1
          /\ Leaves(p, "wake_signal") =>
                /\ \A q \in Procs :
                      pid[q] = Head(pending_entries[p]).pid
                         => procState'[q] = "running"
                /\ Len(pending_entries[p]) > 1 =>
                      /\ pc'[p] = "wake_update"
                      /\ pending_entries'[p] = Tail(pending_entries[p])]_vars

\* C19: a recorded pid whose process has exited.  Probing it in the sweep
\* leaves the prober running, and a drain that signals an entry of its
\* batch, whether the process of that entry lives or not, goes on: in
\* check_instances to the rest of the batch and the recount, in
\* wake_instance to the entries left in the batch.
C19_ExitedPidIsNoError ==
    [][\A p \in Procs :
          /\ Leaves(p, "sweep_probe") => procState'[p] = "running"
          /\ Leaves(p, "drain_signal") =>
                /\ procState'[p] = "running"
                /\ pc'[p] \in {"drain_update", "recount_running"}
                /\ pending_entries'[p] = Tail(pending_entries[p])
          /\ (Leaves(p, "wake_signal") /\ Len(pending_entries[p]) > 1) =>
                /\ pc'[p] = "wake_update"
                /\ pending_entries'[p] = Tail(pending_entries[p])]_vars

\* ------------------------------------------------- the remote connection
\* main() after check_instances, with the global conn: position "main" is
\* the statement conn = connect(...), where conn is None, and position
\* "connected" is main or status at work on the open connection.

\* conn = connect(args.hostname, args.port) returns a connection.
Connect(p) ==
    /\ At(p, "main")
    /\ Goto(p, "connected")
    /\ UNCHANGED <<cacheVars, MAX_RUNNING_INSTANCES, Instance, now, procState,
                   pid, number_instances, pending_entries, pids>>

\* connect raises: end_session is called with conn = None, it prints and
\* calls im.delete_instance().
ConnectFails(p) == EndSession(p)

\* end_session called by ping, status or the failed authenticate:
\* conn.close(), print(msg), im.delete_instance()
ConnectedEndSession(p) ==
    /\ At(p, "connected")
    /\ Instance' = delete_instance(pid[p])
    /\ Goto(p, "wake_count_running")
    /\ UNCHANGED <<cacheVars, MAX_RUNNING_INSTANCES, now, procState, pid,
                   number_instances, pending_entries, pids>>

\* main() reaches its last line, conn.close(), and returns.
ConnectedReturns(p) ==
    /\ At(p, "connected")
    /\ End(p)
    /\ UNCHANGED <<cacheVars, MAX_RUNNING_INSTANCES, Instance, now>>

\* An exception that nothing catches in conn.get_version(),
\* conn.get_reports() or parse_date(): the process ends and its socket with
\* it.
ConnectedUncaught(p) ==
    /\ At(p, "connected")
    /\ End(p)
    /\ UNCHANGED <<cacheVars, MAX_RUNNING_INSTANCES, Instance, now>>

\* conn is an open connection.
ConnOpen(p) == pc[p] = "connected"

StepConn(p) ==
    \/ Start(p)
    \/ SweepProbe(p) \/ SweepDelete(p)
    \/ CountRunning(p) \/ CountPending(p)
    \/ AddRunning(p) \/ AddPending(p) \/ StopSelf(p)
    \/ DrainSelect(p) \/ DrainUpdate(p) \/ DrainSignal(p)
    \/ RecountRunning(p) \/ RecountPending(p)
    \/ Connect(p) \/ ConnectFails(p)
    \/ ConnectedEndSession(p) \/ ConnectedReturns(p) \/ ConnectedUncaught(p)
    \/ WakeCountRunning(p) \/ WakeCountPending(p)
    \/ WakeSelect(p) \/ WakeUpdate(p) \/ WakeSignal(p)

NextConn == \E p \in Procs : StepConn(p) \/ Kill(p)

\* The invocations are started with -I 1, the limit under which the most
\* of them are suspended.
InitConn == Init /\ MAX_RUNNING_INSTANCES = 1

SpecConn == InitConn /\ [][NextConn]_vars

\* C20: an invocation opens its remote connection only from the statement
\* after check_instances, as a running process outside check_instances, and
\* no suspended invocation holds an open connection.
C20_ConnectAfterAdmission ==
    /\ [](\A p \in Procs : procState[p] = "stopped" => ~ConnOpen(p))
    /\ [][\A p \in Procs :
             (ConnOpen(p)' /\ ~ConnOpen(p)) =>
                /\ pc[p] = "main" /\ procState[p] = "running"
                /\ ~InCheckInstances(p)
                /\ procState'[p] = "running"]_vars

\* An invocation works on its open connection while another is suspended.
C20_Witness ==
    \E p, q \in Procs :
        /\ p # q
        /\ ConnOpen(p) /\ procState[p] = "running"
        /\ procState[q] = "stopped" /\ pc[q] = "main"
        /\ <<pid[q], 1>> \in Rows(Instance)

\* ------------------------------------------------------------- clean mode
\* main() with --clean: im = InstanceManager(args.cache), then
\* delete_entry_with_ip (--ip), delete_older_entries (--days) or nothing,
\* then sys.exit(1); set_host, check_instances and connect are not reached.

\* A DELETE that takes the rows of every host.
delete_every_entry(ip) == SelectSeq(Report, LAMBDA r : FALSE)

\* DELETE FROM Report WHERE host=?  with (ip,)
delete_entry_with_ip(ip) == SelectSeq(Report, LAMBDA r : r.host # ip)

\* cursor.execute('VACUUM'); con_db.commit() after a DELETE that leaves the
\* table `deleted`.  The DELETE has opened a transaction.  A sqlite3 module
\* that commits before every statement that is not an INSERT, UPDATE or
\* DELETE (python before 3.6) runs VACUUM and the DELETE stays; a later one
\* raises OperationalError('cannot VACUUM from within a transaction'),
\* commit() is not reached and the DELETE is rolled back when the process
\* ends.
VacuumCommit(deleted) == {deleted, Report}

\* The cached rows a clean invocation may find: no row, one row, or two
\* rows of the same host or of two hosts, the first of them the older scan
\* of the first host.
CleanRows == {ReportRow(req, fromstring(ReportXml(req))) :
                 req \in {r \in Requests :
                            /\ r.scan_end \in {ScanEndUtc, ScanEndLater}
                            /\ r.params_used[2] = 0}}

CleanReports ==
    {<<>>} \cup {<<r>> : r \in CleanRows}
           \cup {<<r1, r2>> : r1 \in {r \in CleanRows :
                                         /\ r.host = "10.0.0.5"
                                         /\ r.scan_end = ScanEndUtc},
                               r2 \in CleanRows}

InitClean ==
    /\ MAX_RUNNING_INSTANCES \in 1..MaxLimit
    /\ Instance = <<>>
    /\ now = 0
    /\ procState = [p \in Procs |-> "unstarted"]
    /\ pc = [p \in Procs |-> "start"]
    /\ pid = [p \in Procs |-> 0]
    /\ number_instances = [p \in Procs |-> 0]
    /\ pending_entries = [p \in Procs |-> <<>>]
    /\ pids = [p \in Procs |-> <<>>]
    /\ Report \in CleanReports
    /\ request = [p \in Procs |-> NoRequest]
    /\ db_entry = [p \in Procs |-> <<>>]
    /\ full_report = [p \in Procs |-> None]
    /\ store = Created

\* The values of --ip; "" stands for a command line without --ip.
CleanIps == Hosts \cup {""}

\* A new check_gmp process with --clean runs main() up to the clean branch.
\* args.ip is kept in request[p].host.
StartClean(p) ==
    /\ procState[p] = "unstarted"
    /\ \A q \in Procs : q < p => procState[q] # "unstarted"
    /\ \E n \in Pids :
          /\ n = p \/ n \in Recorded
          /\ ~check_pid(n)
          /\ pid' = [pid EXCEPT ![p] = n]
    /\ \E ip \in CleanIps :
          request' = [request EXCEPT ![p] = [NoRequest EXCEPT !.host = ip]]
    /\ procState' = [procState EXCEPT ![p] = "running"]
    /\ Goto(p, "clean")
    /\ UNCHANGED <<MAX_RUNNING_INSTANCES, Instance, now, number_instances,
                   pending_entries, pids, Report, db_entry, full_report,
                   store>>

\* An exit through end_session, which wakes a queued invocation.
CleanExitWaking(p) == \E q \in Procs : EndAfter(p, pid[q])

\* sys.exit(1), or the traceback of the OperationalError: the process ends.
CleanExit(p) == End(p)

\* if args.ip: im.delete_entry_with_ip(args.ip); sys.exit(1)
CleanIp(p) ==
    /\ At(p, "clean")
    /\ request[p].host # ""
    /\ Report' \in VacuumCommit(delete_entry_with_ip(request[p].host))
    /\ CleanExit(p)
    /\ request' = [request EXCEPT ![p] = NoRequest]
    /\ UNCHANGED <<MAX_RUNNING_INSTANCES, Instance, now, db_entry,
                   full_report, store>>

\* elif args.days: im.delete_older_entries(args.days); sys.exit(1)
CleanOlder(p) ==
    /\ At(p, "clean")
    /\ request[p].host = ""
    /\ \E days \in Days, clock \in Clocks :
          Report' \in VacuumCommit(delete_older_entries(days, clock))
    /\ CleanExit(p)
    /\ UNCHANGED <<MAX_RUNNING_INSTANCES, Instance, now, request, db_entry,
                   full_report, store>>

\* --clean with neither --ip nor --days: sys.exit(1)
CleanOnly(p) ==
    /\ At(p, "clean")
    /\ request[p].host = ""
    /\ CleanExit(p)
    /\ UNCHANGED <<cacheVars, MAX_RUNNING_INSTANCES, Instance, now>>

\* Invocations with and without --clean on one store; the steps of a clean
\* invocation fall anywhere between the steps of the others.
NextClean ==
    \/ NextSerial
    \/ \E p \in Procs :
          \/ StartClean(p)
          \/ CleanIp(p) \/ CleanOlder(p) \/ CleanOnly(p)

SpecClean == InitClean /\ [][NextClean]_vars

\* C21: clean mode stays out of admission control.  An invocation started
\* with --clean goes from its start to its exit only: it takes no step of
\* the sweep, of check_instances or of end_session, is never stopped, and
\* its steps leave the Instance table and the state of every other process
\* as they were.
C21_CleanModeFrame ==
    /\ [](\A p \in Procs : pc[p] = "clean" => procState[p] = "running")
    /\ [][\A p \in Procs :
             /\ pc[p] = "clean" => pc'[p] \in {"clean", "done"}
             /\ (pc'[p] = "clean" /\ pc[p] # "clean") => pc[p] = "start"
             /\ (Leaves(p, "clean") \/ (pc'[p] = "clean" /\ pc[p] # "clean"))
                   => /\ Instance' = Instance
                      /\ \A q \in Procs \ {p} : procState'[q] = procState[q]
                      /\ procState'[p] # "stopped"]_vars

\* A clean invocation is at work while the limit is reached and an
\* invocation waits in the queue.
C21_Witness ==
    \E p, q \in Procs :
        /\ At(p, "clean")
        /\ procState[q] = "stopped" /\ <<pid[q], 1>> \in Rows(Instance)
        /\ has_entries(0) >= MAX_RUNNING_INSTANCES
        /\ Report # <<>>

\* ------------------------------------------- InstanceManager.__init__(path)
\* Several invocations construct their InstanceManager on one path.  The
\* positions are the statements of the constructor that read or write what
\* is at the path; "constructed" is main() after im = InstanceManager(...),
\* "no_cursor" an invocation whose connect_db has failed (self.cursor and
\* self.con_db are None), "usable" one whose first statement on the store
\* has run.

InitOpen ==
    /\ MAX_RUNNING_INSTANCES \in 1..MaxLimit
    /\ Instance = <<>>
    /\ now = 0
    /\ procState = [p \in Procs |-> "unstarted"]
    /\ pc = [p \in Procs |-> "start"]
    /\ pid = [p \in Procs |-> 0]
    /\ number_instances = [p \in Procs |-> 0]
    /\ pending_entries = [p \in Procs |-> <<>>]
    /\ pids = [p \in Procs |-> <<>>]
    /\ Report = <<>>
    /\ request = [p \in Procs |-> NoRequest]
    /\ db_entry = [p \in Procs |-> <<>>]
    /\ full_report = [p \in Procs |-> None]
    /\ store \in {{}, Created}

\* What a step of the constructor leaves alone, but for pc and store.
OpenFrame ==
    UNCHANGED <<MAX_RUNNING_INSTANCES, Instance, now, procState, pid,
                number_instances, pending_entries, pids, Report, request,
                db_entry, full_report>>

\* What the end of a process in the constructor leaves alone.
OpenEndFrame ==
    UNCHANGED <<MAX_RUNNING_INSTANCES, Instance, now, Report, request,
                db_entry, full_report>>

\* A new check_gmp process runs main() up to im = InstanceManager(...).
StartOpen(p) ==
    /\ procState[p] = "unstarted"
    /\ \A q \in Procs : q < p => procState[q] # "unstarted"
    /\ procState' = [procState EXCEPT ![p] = "running"]
    /\ pid' = [pid EXCEPT ![p] = p]
    /\ Goto(p, "isfile")
    /\ UNCHANGED <<cacheVars, MAX_RUNNING_INSTANCES, Instance, now,
                   number_instances, pending_entries, pids>>

\* exist = os.path.isfile(path); if not exist: ... else: ...
IsFile(p) ==
    /\ At(p, "isfile")
    /\ Goto(p, IF "file" \in store THEN "connect_db" ELSE "makedirs")
    /\ OpenFrame /\ UNCHANGED store

\* os.makedirs(..., exist_ok=True); open(path, 'a').close()
CreateFile(p) ==
    /\ At(p, "makedirs")
    /\ store' = store \cup {"file"}
    /\ Goto(p, "connect_db_new")
    /\ OpenFrame

\* connect_db(): sqlite3.connect(self.path) and the cursor; an exception
\* is caught and logged at debug level, and the caller goes on.
ConnectDb(p, from, to) ==
    /\ At(p, from)
    /\ \/ Goto(p, to)
       \/ Goto(p, "no_cursor")
    /\ OpenFrame /\ UNCHANGED store

\* CREATE TABLE name(...) on a store that has the table raises
\* OperationalError('table ... already exists'), which nothing catches.
CreateTable(p, from, name, to) ==
    /\ At(p, from)
    /\ IF name \in store
       THEN /\ End(p) /\ OpenEndFrame /\ UNCHANGED store
       ELSE /\ store' = store \cup {name}
            /\ Goto(p, to)
            /\ OpenFrame

ConnectNew(p) == ConnectDb(p, "connect_db_new", "create_report")

CreateReport(p) ==
    CreateTable(p, "create_report", "Report", "create_instance")

CreateInstance(p) ==
    CreateTable(p, "create_instance", "Instance", "constructed")

ConnectExisting(p) == ConnectDb(p, "connect_db", "constructed")

\* The first statement on the store after the constructor: SELECT pid FROM
\* Instance in clean_orphaned_instances, or DELETE FROM Report with
\* --clean.  Without the table it raises OperationalError('no such table').
UseStore(p) ==
    /\ At(p, "constructed")
    /\ \E name \in {"Report", "Instance"} :
          IF name \in store
          THEN /\ Goto(p, "usable") /\ OpenFrame
          ELSE /\ End(p) /\ OpenEndFrame
    /\ UNCHANGED store

\* self.cursor.execute(...) with self.cursor = None: AttributeError, in
\* the constructor (CREATE TABLE) or at the first statement on the store.
NoCursor(p) ==
    /\ At(p, "no_cursor")
    /\ End(p) /\ OpenEndFrame
    /\ UNCHANGED store

NextOpen ==
    \E p \in Procs :
        \/ StartOpen(p)
        \/ IsFile(p)
        \/ CreateFile(p)
        \/ ConnectNew(p)
        \/ CreateReport(p)
        \/ CreateInstance(p)
        \/ ConnectExisting(p)
        \/ UseStore(p)
        \/ NoCursor(p)

SpecOpen == InitOpen /\ [][NextOpen]_vars

\* C22: opening the store is idempotent under concurrency.  A constructor
\* that has connected goes through both CREATE TABLE statements and
\* returns; once a constructor has returned, the tables Report and Instance
\* exist, and the first statement of its invocation on the store runs.
C22_OpenIsIdempotent ==
    /\ [](\A p \in Procs :
             pc[p] \in {"constructed", "usable"}
                => {"Report", "Instance"} \subseteq store)
    /\ [][\A p \in Procs :
             /\ Leaves(p, "create_report") => pc'[p] = "create_instance"
             /\ Leaves(p, "create_instance") => pc'[p] = "constructed"
             /\ Leaves(p, "constructed") => pc'[p] = "usable"]_vars

\* C24: a failed connect is fatal where it happens.  A step of connect_db
\* either connects, and the invocation goes on with a cursor, or ends the
\* invocation; no invocation goes on without a connection.
C24_ConnectFailureIsFatal ==
    [][\A p \in Procs :
          /\ Leaves(p, "connect_db") => pc'[p] \in {"constructed", "done"}
          /\ Leaves(p, "connect_db_new")
                => pc'[p] \in {"create_report", "done"}]_vars

\* ------------------------------------------------- status() without clean
\* The invocations that run status() on one store, with no clean
\* invocation between them.
NextStatus ==
    \E p \in Procs :
        \/ OldReport(p)
        \/ DeleteReport(p)
        \/ AddReport(p)
        \/ LoadLocalReport(p)

SpecStatus == InitCache /\ [][NextStatus]_vars

\* C23: load after False.  The load_local_report of an invocation, which
\* it calls after its own old_report has returned False, returns the
\* payload of a row of its host and not None, whatever the other
\* invocations have done on the store in between.
C23_LoadAfterFalse ==
    [][\A p \in Procs :
          Leaves(p, "load_local_report") =>
             /\ full_report'[p] # None
             /\ \E i \in DOMAIN Report :
                   /\ Report[i].host = request[p].host
                   /\ full_report'[p] = fromstring(Report[i].report)]_vars

\* ------------------------------------------ what status() asks and caches
\* The cache specification above takes the fetched report to be a function
\* of host, scan end and params_used.  Here it is what the scan manager is
\* asked for: the arguments of the get_reports call that status() caches.

\* The arguments status() reads; --overrides and --apply-overrides are 0.
\* Without --task args.task is None, and status() then does something only
\* with --use-asset-management.
StatusArgs ==
    {a \in [task : {"None", "task"}, autofp : {0, 1}, overrides : {0},
            apply_overrides : {0}, showlog : BOOLEAN,
            use_asset_management : BOOLEAN] :
        a.task = "None" => a.use_asset_management}

\* The scan ends of the requests: a scan, and one a day later.
StatusScanEnds == {ScanEndUtc, ScanEndLater}

\* The filter of the get_reports call whose answer is cached.  With
\* --use-asset-management: apply_overrides, overrides, 'autofp=%i' if
\* args.autofp, 'levels=hml' if not args.showlog.  With --task: the report
\* of the task, levels=hmlgd, autofp, and the two override values in the
\* order (overrides, apply_overrides).
report_filter(args) ==
    IF args.use_asset_management
    THEN <<"assets", args.apply_overrides, args.overrides,
           IF args.autofp # 0 THEN <<"autofp", args.autofp>> ELSE <<>>,
           IF args.showlog THEN "" ELSE "levels=hml">>
    ELSE <<args.task, args.overrides, args.apply_overrides,
           <<"autofp", args.autofp>>, "levels=hmlgd">>

\* The report the scan manager returns for the call, serialised.
FetchedXml(host, scan_end, args) == <<host, scan_end, report_filter(args)>>

\* conn.get_reports(...) in status(): with --use-asset-management status
\* goes on with the element report/report of the response, with --task
\* with the response.
fetch_report(host, scan_end, args) ==
    [xml |-> FetchedXml(host, scan_end, args),
     root |-> ~args.use_asset_management]

\* What status() passes to old_report and add_report for the arguments.
StatusRequest(host, scan_end, args) ==
    [host |-> host, scan_end |-> scan_end,
     params_used |-> params_used(args), args |-> args]

InitFingerprint ==
    /\ MAX_RUNNING_INSTANCES = NumProcs
    /\ Instance = [p \in 1..NumChecks |->
                      [created_at |-> 0, pid |-> p, pending |-> 0]]
    /\ now = 0
    /\ procState = [p \in Procs |->
                       IF p <= NumChecks THEN "running" ELSE "unstarted"]
    /\ pc = [p \in Procs |-> IF p <= NumChecks THEN "old_report" ELSE "start"]
    /\ pid = [p \in Procs |-> IF p <= NumChecks THEN p ELSE 0]
    /\ number_instances = [p \in Procs |-> 0]
    /\ pending_entries = [p \in Procs |-> <<>>]
    /\ pids = [p \in Procs |-> <<>>]
    /\ Report = <<>>
    /\ request = [p \in Procs |-> NoRequest]
    /\ db_entry = [p \in Procs |-> <<>>]
    /\ full_report = [p \in Procs |-> None]
    /\ store = Created

\* status() up to im.old_report(last_scan_end, params_used) and what
\* follows up to the next statement on the store.
StatusOldReport(p) ==
    /\ At(p, "old_report")
    /\ \A q \in Procs : q < p => pc[q] # "old_report"
    /\ \E host \in Hosts, scan_end \in StatusScanEnds, args \in StatusArgs :
          /\ request' = [request EXCEPT
                            ![p] = StatusRequest(host, scan_end, args)]
          /\ LET entry == select_report(host)
                 result == old_report(scan_end, params_used(args), entry)
             IN  \/ /\ result = "True"
                    /\ full_report' = [full_report EXCEPT ![p] =
                                          fetch_report(host, scan_end, args)]
                    /\ Goto(p, "add_report")
                    /\ UNCHANGED db_entry
                 \/ /\ result = "False"
                    /\ Goto(p, "load_local_report")
                    /\ UNCHANGED <<db_entry, full_report>>
                 \/ /\ result = "delete"
                    /\ db_entry' = [db_entry EXCEPT ![p] = entry]
                    /\ Goto(p, "delete_report")
                    /\ UNCHANGED full_report
    /\ UNCHANGED <<ledgerVars, Report, store>>

\* old_report: self.delete_report(), return True; status() asks the scan
\* manager for the report.
StatusDeleteReport(p) ==
    /\ At(p, "delete_report")
    /\ Report' = delete_report(request[p].host)
    /\ full_report' = [full_report EXCEPT ![p] =
                          fetch_report(request[p].host, request[p].scan_end,
                                       request[p].args)]
    /\ Goto(p, "add_report")
    /\ UNCHANGED <<ledgerVars, request, db_entry, store>>

NextFingerprint ==
    \E p \in Procs :
        \/ StatusOldReport(p)
        \/ StatusDeleteReport(p)
        \/ AddReport(p)
        \/ LoadLocalReport(p)

SpecFingerprint == InitFingerprint /\ [][NextFingerprint]_vars

\* C27: the fingerprint tells apart all requests that fetch different
\* content.  When old_report returns False for a request, the cached
\* report of the host is the answer to the get_reports call that this
\* request would have made: same retrieval mode, same levels, same autofp
\* and override values.
C27_FingerprintDistinguishes ==
    [][\A p \in Procs :
          (Leaves(p, "old_report") /\ pc'[p] = "load_local_report") =>
             \A req \in {request'[p]} :
                /\ load_local_report(req.host).xml[3]
                      = report_filter(req.args)
                /\ load_local_report(req.host).xml[1] = req.host]_vars

\* C25: a miss.  When the Report table has no row of the host, old_report
\* returns True (status goes on to fetch the report and then to
\* add_report) for every scan end, the empty one too, and every
\* fingerprint, and the call changes neither table.
C25_MissIsStale ==
    [][\A p \in Procs :
          Leaves(p, "old_report") =>
             \A req \in {request'[p]} :
                FirstRow(req.host) = 0 =>
                   /\ pc'[p] = "add_report"
                   /\ Report' = Report
                   /\ Instance' = Instance]_vars

\* An invocation has asked for a host with no row, with the empty scan
\* end, next to the row of another host, and goes on to add its report.
C25_Witness ==
    \E p \in Procs :
        /\ At(p, "add_report")
        /\ FirstRow(request[p].host) = 0
        /\ request[p].scan_end = ScanEndEmpty
        /\ Report # <<>>

\* ------------------------------------------------ serial runs, scheduled
\* The steps of invocation p in a run without interleaving.
SerialStep(p) == Alone(p) /\ Step(p)

\* Every invocation that can take a step is scheduled at some time; SIGKILL
\* from outside may come or not.
SpecSerialFair ==
    Init /\ [][NextSerial]_vars /\ \A p \in Procs : WF_vars(SerialStep(p))

\* The positions of the while loop of 'Fall 2'.
DrainLoop == {"drain_select", "drain_update", "drain_signal",
              "recount_running", "recount_pending"}

\* C26: the drain loop of admission case 2, without interleaving.  Every
\* batch has at most limit - active rows; the loop is left at some time;
\* and when the loop is left through its condition, the rows with
\* pending = 0 are limit or more, or no row with pending = 1 is left.
C26_DrainLoopTerminates ==
    /\ [][\A p \in Procs :
             /\ Leaves(p, "drain_select") =>
                   Len(pending_entries'[p])
                      <= MAX_RUNNING_INSTANCES - number_instances[p]
             /\ (Leaves(p, "recount_pending") /\ pc'[p] = "main") =>
                   \/ has_entries(0) >= MAX_RUNNING_INSTANCES
                   \/ has_entries(1) = 0]_vars
    /\ \A p \in Procs :
          (procState[p] = "running" /\ pc[p] \in DrainLoop)
             ~> (pc[p] \notin DrainLoop)

\* An invocation has drained the queue: it stands at the end of a batch,
\* and the invocation it has resumed executes.
C26_Witness ==
    \E p, q \in Procs :
        /\ p # q
        /\ At(p, "recount_pending") /\ number_instances[p] >= 1
        /\ At(q, "main") /\ <<pid[q], 0>> \in Rows(Instance)
        /\ has_entries(1) = 0

\* C28: delete_entry_with_ip(ip).  The step of a clean invocation with
\* --ip leaves exactly the Report rows of the other hosts, in their order,
\* and the Instance table as it was; with no row of the host both tables
\* are as they were.
C28_DeleteEntryWithIp ==
    [][\A p \in Procs :
          (Leaves(p, "clean") /\ request[p].host # "") =>
             /\ Report' = SelectSeq(Report,
                                    LAMBDA r : r.host # request[p].host)
             /\ Instance' = Instance
             /\ FirstRow(request[p].host) = 0 => Report' = Report]_vars

\* A running invocation has fetched the row of pid n in a drain and has
\* not yet sent its continue signal.
AboutToWake(n) ==
    \E q \in Procs :
        /\ procState[q] = "running"
        /\ \E i \in DOMAIN pending_entries[q] : pending_entries[q][i].pid = n

\* C29: no lost wake-up.  In every state an invocation whose process is
\* stopped has a row with pending = 1, or a running invocation that has
\* flipped its row is about to send it the continue signal.
C29_NoLostWakeup ==
    \A p \in Procs :
        procState[p] = "stopped" =>
           \/ <<pid[p], 1>> \in Rows(Instance)
           \/ AboutToWake(pid[p])

\* No invocation is in the middle of check_instances or of end_session.
Quiet == \A p \in Procs : ~InCheckInstances(p) /\ ~InEndSession(p)

\* C30: work conservation.  In every state in which no invocation is in
\* the middle of check_instances or end_session, a row with pending = 1
\* means that the rows with pending = 0 are as many as the limit.
C30_WorkConservation ==
    (Quiet /\ has_entries(1) > 0) => has_entries(0) = MAX_RUNNING_INSTANCES

\* Invocation p takes the step that sends the continue signal of a drain.
Signals(p) == Leaves(p, "drain_signal") \/ Leaves(p, "wake_signal")

\* Invocation p takes the step update_pending_status(created_at, False).
Flips(p) == Leaves(p, "drain_update") \/ Leaves(p, "wake_update")

\* C31: flip before signal.  In both drains the signal for an entry is the
\* step after the committed UPDATE for that entry: the UPDATE leaves no
\* row of the entry's created_at with pending = 1 and sends no signal, and
\* the signal step is reached from the UPDATE only.  An invocation that a
\* drain's signal resumes has its row with pending = 0: no row of its pid
\* has pending = 1.
C31_FlipBeforeSignal ==
    [][\A p \in Procs :
          /\ Flips(p) =>
                /\ pc'[p] \in {"drain_signal", "wake_signal"}
                /\ pending_entries'[p] = pending_entries[p]
                /\ procState' = procState
                /\ \A i \in DOMAIN Instance' :
                      Instance'[i].created_at
                         = Head(pending_entries[p]).created_at
                         => Instance'[i].pending = 0
          /\ (pc'[p] \in {"drain_signal", "wake_signal"} /\ pc'[p] # pc[p])
                => pc[p] \in {"drain_update", "wake_update"}
          /\ Signals(p) =>
                \A q \in Procs :
                   (procState[q] = "stopped" /\ procState'[q] = "running")
                      => /\ <<pid[q], 0>> \in Rows(Instance')
                         /\ <<pid[q], 1>> \notin Rows(Instance')]_vars

\* The step inserts one row at the end and leaves the other rows as they are.
Inserts ==
    /\ Len(Instance') = Len(Instance) + 1
    /\ SubSeq(Instance', 1, Len(Instance)) = Instance

\* The step changes pending values only, and only from 1 to 0.
FlipsToFalse ==
    /\ Len(Instance') = Len(Instance)
    /\ \A i \in DOMAIN Instance :
          /\ Instance'[i].created_at = Instance[i].created_at
          /\ Instance'[i].pid = Instance[i].pid
          /\ Instance'[i].pending <= Instance[i].pending

\* The step deletes rows and leaves the rows it keeps as they are.
Deletes ==
    \E n \in Pids : Instance' = SelectSeq(Instance, LAMBDA r : r.pid # n)

\* C32: the pending value of a row is monotone.  Every step of every
\* invocation, in every interleaving, leaves the table Instance as it is,
\* inserts one row, deletes rows, or flips rows from pending = 1 to
\* pending = 0; no step changes a row from pending = 0 to pending = 1.
C32_PendingMonotone ==
    [][Instance' = Instance \/ Inserts \/ FlipsToFalse \/ Deletes]_vars

\* A drain has flipped the row it fetched, next to a row that was inserted
\* with pending = 0, and is about to signal the pid of the flipped row.
C32_Witness ==
    \E p \in Procs :
       /\ pc[p] \in {"drain_signal", "wake_signal"}
       /\ \E i, j \in DOMAIN Instance :
             /\ i # j
             /\ Instance[i].pid = Head(pending_entries[p]).pid
             /\ Instance[i].pending = 0
             /\ Instance[j].pending = 0

\* C33: a drain changes the pending value of exactly the rows it selected.
\* The step update_pending_status(created_at, False) for the entry of the
\* batch that is next flips one row, the row with the created_at and the pid
\* of that entry, and no other row, also when another row has the same
\* created_at; so a batch of k entries raises the number of rows with
\* pending = 0 by at most k <= limit - active.
C33_FlipsSelectedOnly ==
    [][\A p \in Procs :
          Flips(p) =>
             /\ Len(Instance') = Len(Instance)
             /\ Cardinality(Flipped) <= 1
             /\ \A i \in Flipped :
                   /\ Instance[i].created_at
                         = Head(pending_entries[p]).created_at
                   /\ Instance[i].pid = Head(pending_entries[p]).pid
             /\ Cardinality({i \in DOMAIN Instance' : Instance'[i].pending = 0})
                   <= has_entries(0) + 1]_vars

\* The rows that the step removes from Instance.
Deleted == {i \in DOMAIN Instance :
               \A j \in DOMAIN Instance' : Instance'[j] # Instance[i]}

\* Invocation q is alive, running or stopped, and has inserted its row:
\* it is between its add_instance() and its end_session().
HoldsRow(q) ==
    /\ procState[q] \in {"running", "stopped"}
    /\ pc[q] \in {"stop_self", "main"}

\* C34: the orphan sweep spares the rows of live invocations.  The step
\* delete_instance(pid[0]) of a sweep removes only rows with the pid that
\* failed the sweep's liveness probe, and none of them is the row of an
\* invocation whose process is alive at that step, running or stopped.
C34_SweepSparesLive ==
    [][\A p \in Procs :
          Leaves(p, "sweep_delete") =>
             \A i \in Deleted :
                /\ Instance[i].pid = Head(pids[p])
                /\ \A q \in Procs : HoldsRow(q) => pid[q] # Instance[i].pid]_vars

====
